---- MODULE Spec2Model ----
(***************************************************************************)
(* ChessPilot: the auto-play scheduler (src/src/executor/auto_move.py),    *)
(* the move pipeline (src/src/executor/process_move.py and                 *)
(* execute_normal_move.py) and the position tracker, as a state machine.   *)
(*                                                                         *)
(* Threads.  Every enable starts one polling-loop thread (auto_move_loop)  *)
(* and every hand-over or press of the play control starts one pipeline    *)
(* thread (process_move).  A thread's position is its pc; one action is    *)
(* one stretch of code between two suspension points (a sleep, a sensor    *)
(* call, an oracle call), so that the interleavings of the model are those *)
(* of the threads.                                                         *)
(*                                                                         *)
(* Collaborators.  The vision sensor, the move oracle and the actuator are *)
(* outside the repository; each call is a nondeterministic choice over the *)
(* results the callers handle: a value, nothing, or a raised exception.    *)
(* A placement string is a number 1..MaxPlacement; 0 is the empty string   *)
(* the placement map is constructed with.                                  *)
(*                                                                         *)
(* Calls.  current_position, move_detected, seed_fen and                   *)
(* verification_position (locals of the polling loop), update_status (the  *)
(* message handed to the status callback), btn_play (the setEnabled call)  *)
(* and outcome (how a pipeline's body ended) hold what the action just     *)
(* taken assigned or issued; an action that assigns none of them leaves    *)
(* them at their empty values.                                             *)
(*                                                                         *)
(* auto_mode_var is passed as a callable reading root.auto_mode_var (the   *)
(* loop of auto_move.py:236 re-reads it on every tick), so that            *)
(* callable(auto_mode_var) is true wherever the pipeline tests it.         *)
(***************************************************************************)
EXTENDS Integers, FiniteSets, Sequences, TLC

\* ------------------------------------------------------------------ bounds
MaxPlacement == 2
MaxLoops == 1
MaxRacingLoops == 2
MaxThreads == 2

\* --------------------------------------------------------- program constants
_max_failures == 3
max_retries == 3
MAX_FEN_EXTRACTION_RETRIES == 3

\* wait_for_promotion_dialog: the turns of its loop.  elapsed < max_wait_time
\* (1.5) still holds after ten additions of check_interval (0.15), whose sum
\* in binary floating point is 1.4999999999999998.
max_checks == 11

Colors == {"w", "b"}
Placements == 1..MaxPlacement
Loops == 1..MaxLoops
RacingLoops == 1..MaxRacingLoops
Threads == 1..MaxThreads

VARIABLES
  color_indicator,        \* the colour the user plays
  auto_mode_var,          \* root.auto_mode_var: autoplay enabled
  processing_event,       \* the in-flight flag
  board_positions,        \* TRUE when the square map holds the 64 squares
  last_fen_by_color,      \* colour -> last placement; a key may be absent
  _consecutive_failures,  \* the Failure Governor's counter
  lpc,                    \* polling loop -> position
  ppc,                    \* pipeline thread -> position
  move_data,              \* pipeline thread -> placement after the oracle's move
  current_position,       \* the sample the tick just taken classified
  move_detected,          \* the result of _handle_player_turn in that tick
  seed_fen,               \* the placement the seeding just done sampled
  update_status,          \* the status message just issued
  btn_play,               \* the setEnabled call just made on the play control
  outcome,                \* how the pipeline body just ended
  verification_position,  \* the sample _process_detected_move just took
  failRun,                \* history: sampling-failed ticks in a row
  played,                 \* history: placement after the last confirmed move
  obs,                    \* the tracker taken alone (SpecTracker)
  ex,                     \* the executor taken alone (SpecExecutor)
  call                    \* one call of a function taken alone: its arguments,
                          \* its position and its result

vars == << color_indicator, auto_mode_var, processing_event, board_positions,
           last_fen_by_color, _consecutive_failures, lpc, ppc, move_data,
           current_position, move_detected, seed_fen, update_status, btn_play,
           outcome, verification_position, failRun, played, obs, ex, call >>

\* ----------------------------------------------------------------- values
NoSample == [ok |-> "unset", placement |-> 0, active |-> "-"]
FailedSample == [ok |-> "none", placement |-> 0, active |-> "-"]
Sample(p, a) == [ok |-> "ok", placement |-> p, active |-> a]
Samples == {Sample(p, a) : p \in Placements, a \in Colors}

NoObs == [stage |-> 0, sample |-> NoSample, first |-> FALSE, second |-> FALSE]

\* No function is being followed alone.
NoCall == [fn |-> "none"]

\* No executor call is being followed.
NoExec == [pc |-> "off", castling |-> FALSE, skip |-> TRUE, mate_flag |-> FALSE,
           attempt |-> 0, moves |-> 0, verified |-> "none", ret |-> "none"]

\* opp_color = 'b' if color_indicator == 'w' else 'w'
opp_color(c) == IF c = "w" THEN "b" ELSE "w"

\* d[k] = v on a dict
Put(d, k, v) == [x \in (DOMAIN d) \cup {k} |-> IF x = k THEN v ELSE d[x]]

\* The placement maps the program is constructed with: main.py:59 builds
\* {'w': '', 'b': ''}; auto_move.py:418 also provides for a map without keys.
EmptyDict == [x \in {} |-> 0]
InitialMaps == {EmptyDict, [x \in Colors |-> 0]}

\* ----------------------------------------------------------- the tracker

\* _handle_opponent_turn without its assignment.
_handle_opponent_turn_forgets(opp, placement, last) ==
  last

_handle_opponent_turn(opp, placement, last) ==
  IF opp \notin DOMAIN last \/ placement # last[opp]
    THEN Put(last, opp, placement)
    ELSE last


\* _handle_player_turn without the comparison against the stored placement.
_handle_player_turn_always(opp, placement, last) ==
  IF opp \notin DOMAIN last
    THEN [move_detected |-> FALSE, last |-> last]
    ELSE [move_detected |-> TRUE, last |-> Put(last, opp, placement)]

_handle_player_turn(opp, placement, last) ==
  IF opp \notin DOMAIN last
    THEN [move_detected |-> FALSE, last |-> last]
    ELSE IF placement = last[opp]
      THEN [move_detected |-> FALSE, last |-> last]
      ELSE [move_detected |-> TRUE, last |-> Put(last, opp, placement)]


\* observe whose player-turn branch reports without storing the placement.
observe_nolatch(color, sample, last) ==
  IF sample.active = opp_color(color)
    THEN [move_detected |-> FALSE,
          last |-> _handle_opponent_turn(opp_color(color), sample.placement, last)]
    ELSE [move_detected |->
            _handle_player_turn(opp_color(color), sample.placement, last).move_detected,
          last |-> last]

\* One classification of a successful sample (auto_move.py:263-272).
observe(color, sample, last) ==
  IF sample.active = opp_color(color)
    THEN [move_detected |-> FALSE,
          last |-> _handle_opponent_turn(opp_color(color), sample.placement, last)]
    ELSE IF sample.active = color
      THEN _handle_player_turn(opp_color(color), sample.placement, last)
      ELSE [move_detected |-> FALSE, last |-> last]


\* _update_seed_positions writing the white slot alone.
_update_seed_positions_white(placement, last) ==
  Put(last, "w", placement)

_update_seed_positions(placement, last) ==
  Put(Put(last, "w", placement), "b", placement)

\* fen is the position after the oracle's move: its placement and the colour
\* that is to move in it.
update_last_fen_for_color(fen, last) ==
  Put(last, fen.active, fen.placement)

\* ------------------------------------------------------ Failure Governor

\* The threshold test with > in place of >=.
ReachedMax_late(n) == n > _max_failures

ReachedMax(n) == n >= _max_failures

Min(a, b) == IF a < b THEN a ELSE b

\* _stop_auto_mode without the setEnabled call on the play control.
_stop_auto_mode_nobutton(message) ==
  [auto_mode_var |-> FALSE, btn_play |-> "none", update_status |-> message]

\* _stop_auto_mode without its status call.
_stop_auto_mode_silent(message) ==
  [auto_mode_var |-> FALSE, btn_play |-> "enable", update_status |-> ""]

\* What _stop_auto_mode does: autoplay off, the play control enabled, the
\* message issued.  NoStop is its absence.
_stop_auto_mode(message) ==
  [auto_mode_var |-> FALSE, btn_play |-> "enable", update_status |-> message]

NoStop ==
  [auto_mode_var |-> auto_mode_var, btn_play |-> "none", update_status |-> ""]

\* ------------------------------------------------------------------ Init
Init ==
  /\ color_indicator \in Colors
  /\ auto_mode_var = FALSE
  /\ processing_event = FALSE
  /\ board_positions = FALSE
  /\ last_fen_by_color \in InitialMaps
  /\ _consecutive_failures = 0
  /\ lpc = [l \in Loops \cup RacingLoops |-> "idle"]
  /\ ppc = [t \in Threads |-> "done"]
  /\ move_data = [t \in Threads |-> 0]
  /\ current_position = NoSample
  /\ move_detected = FALSE
  /\ seed_fen = 0
  /\ update_status = ""
  /\ btn_play = "none"
  /\ outcome = "none"
  /\ verification_position = NoSample
  /\ failRun = 0
  /\ played = 0
  /\ obs = NoObs
  /\ ex = NoExec
  /\ call = NoCall

\* What the action just taken sampled, issued and ended; every action but the
\* hand-over leaves verification_position empty.
Resampled(vp) == verification_position' = vp

Issued(cp, md, sf, us, bp, oc) ==
  /\ current_position' = cp
  /\ move_detected' = md
  /\ seed_fen' = sf
  /\ update_status' = us
  /\ btn_play' = bp
  /\ outcome' = oc

Calls(cp, md, sf, us, bp, oc) ==
  /\ Issued(cp, md, sf, us, bp, oc)
  /\ Resampled(NoSample)

\* ------------------------------------------------------- thread creation
\* threading.Thread(target=process_move, ...).start(): the thread created is
\* the first one not running.
FreeThread(t) == ppc[t] = "done" /\ \A u \in Threads : u < t => ppc[u] # "done"

FreeLoop(L, l) ==
  l \in L /\ lpc[l] = "idle" /\ \A k \in L : k < l => lpc[k] # "idle"

process_move_thread(t) ==
  /\ FreeThread(t)
  /\ ppc' = [ppc EXCEPT ![t] = "start"]

\* ------------------------------------------------------------- the user
\* The checkbox is ticked: toggle_auto_mode disables the play control, starts
\* one pipeline and one polling loop.
toggle_auto_mode(L) ==
  /\ ~auto_mode_var
  /\ auto_mode_var' = TRUE
  /\ \E t \in Threads : process_move_thread(t)
  /\ \E l \in L : FreeLoop(L, l) /\ lpc' = [lpc EXCEPT ![l] = "seed"]
  /\ Calls(NoSample, FALSE, 0, "", "disable", "none")
  /\ UNCHANGED << color_indicator, processing_event, board_positions,
                  last_fen_by_color, _consecutive_failures, move_data, failRun,
                  played, obs, ex, call >>

Enable == toggle_auto_mode(Loops)

\* The checkbox is cleared.
Disable ==
  /\ auto_mode_var
  /\ auto_mode_var' = FALSE
  /\ Calls(NoSample, FALSE, 0, "", "enable", "none")
  /\ UNCHANGED << color_indicator, processing_event, board_positions,
                  last_fen_by_color, _consecutive_failures, lpc, ppc, move_data,
                  failRun, played, obs, ex, call >>

\* The play shortcut (or the play button): one pipeline, whatever autoplay does.
ManualPlay ==
  /\ \E t \in Threads : process_move_thread(t)
  /\ Calls(NoSample, FALSE, 0, "", "none", "none")
  /\ UNCHANGED << color_indicator, auto_mode_var, processing_event,
                  board_positions, last_fen_by_color, _consecutive_failures,
                  lpc, move_data, failRun, played, obs, ex, call >>

\* --------------------------------------------------------- polling loop
\* auto_move_loop up to the first tick: the counter is cleared, one sample seeds
\* both colours; no image, no board, a malformed position or an exception
\* leave the map alone.
Seed(l) ==
  /\ lpc[l] = "seed"
  /\ _consecutive_failures' = 0
  /\ failRun' = 0
  /\ \E s \in Samples \cup {FailedSample} :
       /\ last_fen_by_color' =
            IF s.ok = "ok"
              THEN _update_seed_positions(s.placement, last_fen_by_color)
              ELSE last_fen_by_color
       /\ Calls(NoSample, FALSE, s.placement, "", "none", "none")
  /\ lpc' = [lpc EXCEPT ![l] = "loop"]
  /\ UNCHANGED << color_indicator, auto_mode_var, processing_event,
                  board_positions, ppc, move_data, played, obs, ex, call >>

\* _get_var_value answering that the flag is set, whatever it holds.
_get_var_value_stale(v) == TRUE

\* The while condition reads the enable flag afresh on every iteration.
_get_var_value(v) == v

\* The concurrency guard with the flag test left out.
_should_continue_processing_unguarded(flag, positions) == positions

\* The concurrency guard and the geometry guard of a tick.
_should_continue_processing(flag, positions) == ~flag /\ positions

\* The head of one iteration: the while condition, the threshold, the
\* concurrency guard and the geometry guard.
LoopCheck(l) ==
  /\ lpc[l] = "loop"
  /\ LET stop == _get_var_value(auto_mode_var) /\ ReachedMax(_consecutive_failures)
         e == IF stop
                THEN _stop_auto_mode("Auto mode stopped: consecutive failures")
                ELSE NoStop
     IN /\ auto_mode_var' = e.auto_mode_var
        /\ Calls(NoSample, FALSE, 0, e.update_status, e.btn_play, "none")
        /\ lpc' = [lpc EXCEPT ![l] =
                     IF ~_get_var_value(auto_mode_var) \/ stop THEN "idle"
                     ELSE IF ~_should_continue_processing(processing_event,
                                                          board_positions)
                       THEN "loop"
                     ELSE "tick"]
  /\ UNCHANGED << color_indicator, processing_event, board_positions,
                  last_fen_by_color, _consecutive_failures, ppc, move_data,
                  failRun, played, obs, ex, call >>

\* _capture_current_position returned None.
TickFailed(l) ==
  /\ lpc[l] = "tick"
  /\ _consecutive_failures' = _consecutive_failures + 1
  /\ failRun' = Min(failRun + 1, _max_failures)
  /\ LET stop == ReachedMax(_consecutive_failures + 1)
         e == IF stop
                THEN _stop_auto_mode("Auto mode stopped: Board detection failed repeatedly")
                ELSE NoStop
     IN /\ auto_mode_var' = e.auto_mode_var
        /\ Calls(FailedSample, FALSE, 0, e.update_status, e.btn_play, "none")
        /\ lpc' = [lpc EXCEPT ![l] = IF stop THEN "idle" ELSE "loop"]
  /\ UNCHANGED << color_indicator, processing_event, board_positions,
                  last_fen_by_color, ppc, move_data, played, obs, ex, call >>

\* A sample was taken: the counter is cleared and the tracker classifies it.
TickSampled(l) ==
  /\ lpc[l] = "tick"
  /\ \E s \in Samples :
       LET r == observe(color_indicator, s, last_fen_by_color) IN
         /\ last_fen_by_color' = r.last
         /\ Calls(s, r.move_detected, 0, "", "none", "none")
         /\ lpc' = [lpc EXCEPT ![l] = IF r.move_detected THEN "detected" ELSE "loop"]
  /\ _consecutive_failures' = 0
  /\ failRun' = 0
  /\ UNCHANGED << color_indicator, auto_mode_var, processing_event,
                  board_positions, ppc, move_data, played, obs, ex, call >>

\* except Exception in the loop: count, stop at the threshold, else go on.
LoopFault(l) ==
  /\ _consecutive_failures' = _consecutive_failures + 1
  /\ LET stop == ReachedMax(_consecutive_failures + 1)
         e == IF stop THEN _stop_auto_mode("Auto mode stopped: Error") ELSE NoStop
     IN /\ auto_mode_var' = e.auto_mode_var
        /\ Calls(NoSample, FALSE, 0, e.update_status, e.btn_play, "none")
        /\ lpc' = [lpc EXCEPT ![l] = IF stop THEN "idle" ELSE "loop"]

\* The sensor raised during the tick's sample.
TickFault(l) ==
  /\ lpc[l] = "tick"
  /\ LoopFault(l)
  /\ failRun' = 0
  /\ UNCHANGED << color_indicator, processing_event, board_positions,
                  last_fen_by_color, ppc, move_data, played, obs, ex, call >>

\* _process_detected_move: settle, one more sample (stored under our colour
\* when it shows us to move), the pre-move delay, the hand-over.
Dispatch(l) ==
  /\ lpc[l] = "detected"
  /\ \E s \in Samples \cup {FailedSample} :
       /\ Resampled(s)
       /\ last_fen_by_color' =
            IF s.ok = "ok" /\ s.active = color_indicator
              THEN Put(last_fen_by_color, color_indicator, s.placement)
              ELSE last_fen_by_color
  /\ \E t \in Threads : process_move_thread(t)
  /\ lpc' = [lpc EXCEPT ![l] = "loop"]
  /\ Issued(NoSample, FALSE, 0, "", "none", "none")
  /\ UNCHANGED << color_indicator, auto_mode_var, processing_event,
                  board_positions, _consecutive_failures, move_data, failRun,
                  played, obs, ex, call >>

\* The sensor raised during the settle sample, or the thread could not be
\* started after it (the sample then stored as in Dispatch): nothing is
\* handed over.
DispatchFault(l) ==
  /\ lpc[l] = "detected"
  /\ LoopFault(l)
  /\ \E s \in Samples \cup {FailedSample} :
       last_fen_by_color' =
         IF s.ok = "ok" /\ s.active = color_indicator
           THEN Put(last_fen_by_color, color_indicator, s.placement)
           ELSE last_fen_by_color
  /\ UNCHANGED << color_indicator, processing_event, board_positions,
                  ppc, move_data, failRun, played, obs, ex, call >>

\* ------------------------------------------------------------- pipeline
InFlight == {"extract", "execute"}

\* _can_start_processing: with the flag set the call returns at once.
PStart(t) ==
  /\ ppc[t] = "start"
  /\ ppc' = [ppc EXCEPT ![t] = IF processing_event THEN "done" ELSE "init"]
  /\ Calls(NoSample, FALSE, 0, "", "none",
           IF processing_event THEN "rejected" ELSE "none")
  /\ UNCHANGED << color_indicator, auto_mode_var, processing_event,
                  board_positions, last_fen_by_color, _consecutive_failures,
                  lpc, move_data, failRun, played, obs, ex, call >>

\* _initialize_move_processing, which runs before the try: block.
PInit(t) ==
  /\ ppc[t] = "init"
  /\ processing_event' = TRUE
  /\ ppc' = [ppc EXCEPT ![t] = "extract"]
  /\ Calls(NoSample, FALSE, 0, "Analyzing board...", "disable", "none")
  /\ UNCHANGED << color_indicator, auto_mode_var, board_positions,
                  last_fen_by_color, _consecutive_failures, lpc, move_data,
                  failRun, played, obs, ex, call >>

\* The same, with a QTimer.singleShot call raising after the flag was set: the
\* exception leaves process_move before the try: block is entered.
PInitFault(t) ==
  /\ ppc[t] = "init"
  /\ processing_event' = TRUE
  /\ ppc' = [ppc EXCEPT ![t] = "done"]
  /\ Calls(NoSample, FALSE, 0, "", "none", "init_fault")
  /\ UNCHANGED << color_indicator, auto_mode_var, board_positions,
                  last_fen_by_color, _consecutive_failures, lpc, move_data,
                  failRun, played, obs, ex, call >>

\* The finally: block, with auto the value of auto_mode_var the body leaves
\* and us the message the body issued last.
_finalize_move_processing(t, auto, us, oc) ==
  /\ processing_event' = FALSE
  /\ auto_mode_var' = auto
  /\ ppc' = [ppc EXCEPT ![t] = "done"]
  /\ move_data' = [move_data EXCEPT ![t] = 0]
  /\ Calls(NoSample, FALSE, 0, us, IF ~auto THEN "enable" ELSE "none", oc)

\* The except: block (_handle_processing_error), then the finally: block.
_handle_processing_error(t, oc) ==
  _finalize_move_processing(t, FALSE, "Error", oc)

\* _extract_board_position gave up: the last attempt had no image (nothing is
\* said and autoplay stays as it is), no board or no position (a message,
\* autoplay off).
PExtractFailed(t) ==
  /\ ppc[t] = "extract"
  /\ \E why \in {"image", "board", "fen"} :
       IF why = "image"
         THEN _finalize_move_processing(t, auto_mode_var, "", "sensor_fail")
         ELSE _finalize_move_processing(t, FALSE,
                IF why = "board" THEN "No board detected after retries"
                                 ELSE "Error: Could not detect board/FEN",
                "sensor_fail")
  /\ UNCHANGED << color_indicator, board_positions, last_fen_by_color,
                  _consecutive_failures, lpc, failRun, played, obs, ex, call >>

\* get_positions raised inside the try: block.
PExtractFault(t) ==
  /\ ppc[t] = "extract"
  /\ _handle_processing_error(t, "fault")
  /\ UNCHANGED << color_indicator, board_positions, last_fen_by_color,
                  _consecutive_failures, lpc, failRun, played, obs, ex, call >>

\* _extract_board_position found a position and _process_best_move runs up to
\* the execution: the geometry is stored, the oracle answers with a move and
\* the position after it, which is stored under the colour that is to move in it.
POracle(t) ==
  /\ ppc[t] = "extract"
  /\ board_positions' = TRUE
  /\ \E board_data \in Samples, p \in Placements :
       /\ move_data' = [move_data EXCEPT ![t] = p]
       /\ last_fen_by_color' = update_last_fen_for_color(
            [placement |-> p, active |-> opp_color(board_data.active)],
            last_fen_by_color)
  /\ ppc' = [ppc EXCEPT ![t] = "execute"]
  /\ Calls(NoSample, FALSE, 0, "", "none", "none")
  /\ UNCHANGED << color_indicator, auto_mode_var, processing_event,
                  _consecutive_failures, lpc, failRun, played, obs, ex, call >>

\* A position was found and the oracle gave no move (get_best_move's failure
\* handler raises, see get_best_move.py:307 and 329) or no position after the
\* move (update_last_fen_for_color(None) raises): both end in the except: block.
POracleFailed(t) ==
  /\ ppc[t] = "extract"
  /\ board_positions' = TRUE
  /\ _handle_processing_error(t, "oracle_fail")
  /\ UNCHANGED << color_indicator, last_fen_by_color, _consecutive_failures,
                  lpc, failRun, played, obs, ex, call >>

\* execute_normal_move: the move is played and seen on the board; a mate in
\* one turns autoplay off.
PExecuteVerified(t) ==
  /\ ppc[t] = "execute"
  /\ \E mate_flag \in BOOLEAN :
       _finalize_move_processing(t, IF mate_flag THEN FALSE ELSE auto_mode_var,
                                 "Move Played", "played")
  /\ played' = move_data[t]
  /\ UNCHANGED << color_indicator, board_positions, last_fen_by_color,
                  _consecutive_failures, lpc, failRun, obs, ex, call >>

\* The move (normal or castling) is played and not seen on the board
\* (SKIP_VERIFICATION_ON_FAILURE), or no attempt got as far as playing it.
PExecuteUnverified(t) ==
  /\ ppc[t] = "execute"
  /\ \E how \in {"unverified", "failed"} :
       _finalize_move_processing(t, FALSE,
         IF how = "unverified" THEN "Move Played (unverified)"
                               ELSE "Move failed to register", how)
  /\ UNCHANGED << color_indicator, board_positions, last_fen_by_color,
                  _consecutive_failures, lpc, failRun, played, obs, ex, call >>

\* _perform_castling_move: king and rook are moved and the castling is seen on
\* the board; the placement then sampled is stored under our own colour.
PCastlingVerified(t) ==
  /\ ppc[t] = "execute"
  /\ \E mate_flag \in BOOLEAN :
       _finalize_move_processing(t, IF mate_flag THEN FALSE ELSE auto_mode_var,
                                 "Move Played", "played")
  /\ \E current_fen \in Placements :
       last_fen_by_color' = Put(last_fen_by_color, color_indicator, current_fen)
  /\ played' = move_data[t]
  /\ UNCHANGED << color_indicator, board_positions, _consecutive_failures,
                  lpc, failRun, obs, ex, call >>

\* _execute_castling_move with is_castling_possible answering no: a log line,
\* no move; the only message there can be is that of the castling checkbox
\* being ticked.
PCastlingNotPossible(t) ==
  /\ ppc[t] = "execute"
  /\ \E us \in {"", "Auto-enabled Castle"} :
       _finalize_move_processing(t, auto_mode_var, us, "not_possible")
  /\ UNCHANGED << color_indicator, board_positions, last_fen_by_color,
                  _consecutive_failures, lpc, failRun, played, obs, ex, call >>

\* ---------------------------------------------------------- specification
Next ==
  \/ Enable
  \/ Disable
  \/ ManualPlay
  \/ \E l \in Loops : Seed(l)
  \/ \E l \in Loops : LoopCheck(l)
  \/ \E l \in Loops : TickFailed(l)
  \/ \E l \in Loops : TickSampled(l)
  \/ \E l \in Loops : TickFault(l)
  \/ \E l \in Loops : Dispatch(l)
  \/ \E l \in Loops : DispatchFault(l)
  \/ \E t \in Threads : PStart(t)
  \/ \E t \in Threads : PInit(t)
  \/ \E t \in Threads : PInitFault(t)
  \/ \E t \in Threads : PExtractFailed(t)
  \/ \E t \in Threads : PExtractFault(t)
  \/ \E t \in Threads : POracle(t)
  \/ \E t \in Threads : POracleFailed(t)
  \/ \E t \in Threads : PExecuteVerified(t)
  \/ \E t \in Threads : PExecuteUnverified(t)
  \/ \E t \in Threads : PCastlingVerified(t)
  \/ \E t \in Threads : PCastlingNotPossible(t)

Spec == Init /\ [][Next]_vars

\* ------------------------------------------------ the tracker taken alone
\* Every placement map over the two colours, keys absent or present.
TrackerStates ==
  UNION {[d -> 0..MaxPlacement] : d \in SUBSET Colors}

InitTracker ==
  /\ color_indicator \in Colors
  /\ auto_mode_var = FALSE
  /\ processing_event = FALSE
  /\ board_positions = FALSE
  /\ last_fen_by_color \in TrackerStates
  /\ _consecutive_failures = 0
  /\ lpc = [l \in Loops \cup RacingLoops |-> "idle"]
  /\ ppc = [t \in Threads |-> "done"]
  /\ move_data = [t \in Threads |-> 0]
  /\ current_position = NoSample
  /\ move_detected = FALSE
  /\ seed_fen = 0
  /\ update_status = ""
  /\ btn_play = "none"
  /\ outcome = "none"
  /\ verification_position = NoSample
  /\ failRun = 0
  /\ played = 0
  /\ obs \in {[stage |-> 0, sample |-> s, first |-> FALSE, second |-> FALSE] :
               s \in Samples}
  /\ ex = NoExec
  /\ call = NoCall

TrackerUnchanged ==
  UNCHANGED << color_indicator, auto_mode_var, processing_event,
               board_positions, _consecutive_failures, lpc, ppc, move_data,
               current_position, move_detected, seed_fen, update_status,
               btn_play, outcome, verification_position, failRun, played, ex, call >>

\* The first classification of the sample.
ObserveFirst ==
  /\ obs.stage = 0
  /\ LET r == observe(color_indicator, obs.sample, last_fen_by_color) IN
       /\ last_fen_by_color' = r.last
       /\ obs' = [obs EXCEPT !.stage = 1, !.first = r.move_detected]
  /\ TrackerUnchanged

\* The classification of the same sample on the next tick.
ObserveSecond ==
  /\ obs.stage = 1
  /\ LET r == observe(color_indicator, obs.sample, last_fen_by_color) IN
       /\ last_fen_by_color' = r.last
       /\ obs' = [obs EXCEPT !.stage = 2, !.second = r.move_detected]
  /\ TrackerUnchanged

NextTracker ==
  \/ ObserveFirst
  \/ ObserveSecond

SpecTracker == InitTracker /\ [][NextTracker]_vars

\* ------------------------------------------ enabling while a loop still runs
\* The same program with room for a second polling-loop thread, from one of
\* its initial states; the play control is left alone.
InitLoops ==
  /\ Init
  /\ color_indicator = "w"
  /\ last_fen_by_color = [x \in Colors |-> 0]

EnableRacing == toggle_auto_mode(RacingLoops)

NextLoops ==
  \/ EnableRacing
  \/ Disable
  \/ \E l \in RacingLoops : Seed(l)
  \/ \E l \in RacingLoops : LoopCheck(l)
  \/ \E l \in RacingLoops : TickFailed(l)
  \/ \E l \in RacingLoops : TickSampled(l)
  \/ \E l \in RacingLoops : TickFault(l)
  \/ \E l \in RacingLoops : Dispatch(l)
  \/ \E l \in RacingLoops : DispatchFault(l)
  \/ \E t \in Threads : PStart(t)
  \/ \E t \in Threads : PInit(t)
  \/ \E t \in Threads : PExtractFailed(t)
  \/ \E t \in Threads : POracle(t)
  \/ \E t \in Threads : PExecuteVerified(t)

SpecLoops == InitLoops /\ [][NextLoops]_vars

\* ----------------------------------------------- the executor taken alone
\* execute_normal_move and _perform_castling_move: up to max_retries attempts,
\* each one fetching the position, playing the move and looking for it on the
\* board.  ex.skip is AppConfig.SKIP_VERIFICATION_ON_FAILURE, ex.moves the
\* number of times the move was played, ex.verified the last verification.
InitExecutor ==
  /\ color_indicator \in Colors
  /\ auto_mode_var \in BOOLEAN
  /\ processing_event = TRUE
  /\ board_positions = TRUE
  /\ last_fen_by_color \in InitialMaps
  /\ _consecutive_failures = 0
  /\ lpc = [l \in Loops \cup RacingLoops |-> "idle"]
  /\ ppc = [t \in Threads |-> "done"]
  /\ move_data = [t \in Threads |-> 0]
  /\ current_position = NoSample
  /\ move_detected = FALSE
  /\ seed_fen = 0
  /\ update_status = ""
  /\ btn_play = "none"
  /\ outcome = "none"
  /\ verification_position = NoSample
  /\ failRun = 0
  /\ played = 0
  /\ obs = NoObs
  /\ ex \in {[pc |-> "attempt", castling |-> c, skip |-> k, mate_flag |-> m,
               attempt |-> 1, moves |-> 0, verified |-> "none", ret |-> "none"] :
              c \in BOOLEAN, k \in BOOLEAN, m \in BOOLEAN}
  /\ call = NoCall

ExecutorUnchanged ==
  UNCHANGED << color_indicator, processing_event, board_positions,
               _consecutive_failures, lpc, ppc, move_data, current_position,
               move_detected, seed_fen, btn_play, outcome,
               verification_position, failRun, played, obs, call >>

\* The retry test with no attempt allowed after the first.
CanRetry_once(attempt) == FALSE

\* for attempt in range(1, max_retries + 1): is there an attempt after this one
CanRetry(attempt) == attempt < max_retries

\* _handle_unverified_move leaving autoplay as it is.
_handle_unverified_move_keeps(auto) ==
  [ret |-> "True", update_status |-> "Move Played (unverified)",
   auto_mode_var |-> auto]

\* _handle_unverified_move and _handle_unverified_castling, then return True.
_handle_unverified_move(auto) ==
  [ret |-> "True", update_status |-> "Move Played (unverified)",
   auto_mode_var |-> FALSE]

\* _handle_successful_move and _handle_successful_castling, then return True.
_handle_successful_move(auto) ==
  [ret |-> "True", update_status |-> "Move Played",
   auto_mode_var |-> IF ex.mate_flag THEN FALSE ELSE auto]

\* _handle_move_failure and _handle_castling_failure, then return False.
_handle_move_failure(auto) ==
  [ret |-> "False", update_status |-> "Move failed to register",
   auto_mode_var |-> FALSE]

\* The executor returns with what one of the handlers above did.
Return(h, moved, verified) ==
  /\ ex' = [ex EXCEPT !.pc = "returned", !.moves = @ + moved,
                      !.verified = verified, !.ret = h.ret]
  /\ update_status' = h.update_status
  /\ auto_mode_var' = h.auto_mode_var

\* The attempt did not succeed: the next attempt, or the failure after the
\* last one.
Retry(moved, verified) ==
  IF CanRetry(ex.attempt)
    THEN /\ ex' = [ex EXCEPT !.attempt = @ + 1, !.moves = @ + moved,
                             !.verified = verified]
         /\ UNCHANGED << update_status, auto_mode_var >>
    ELSE Return(_handle_move_failure(auto_mode_var), moved, verified)

\* The position before the move could not be fetched (or, for a normal move,
\* the squares of the move are not in the geometry): nothing is played.
XNoPosition ==
  /\ ex.pc = "attempt"
  /\ Retry(0, "none")
  /\ UNCHANGED last_fen_by_color
  /\ ExecutorUnchanged

\* The move is played and seen on the board; a verified castling stores the
\* placement then sampled under our own colour.
XVerified ==
  /\ ex.pc = "attempt"
  /\ Return(_handle_successful_move(auto_mode_var), 1, "yes")
  /\ IF ex.castling
       THEN \E current_fen \in Placements :
              last_fen_by_color' =
                Put(last_fen_by_color, color_indicator, current_fen)
       ELSE UNCHANGED last_fen_by_color
  /\ ExecutorUnchanged

\* The move is played and not seen on the board.
XUnverified ==
  /\ ex.pc = "attempt"
  /\ IF ex.skip
       THEN Return(_handle_unverified_move(auto_mode_var), 1, "no")
       ELSE Retry(1, "no")
  /\ UNCHANGED last_fen_by_color
  /\ ExecutorUnchanged

NextExecutor ==
  \/ XNoPosition
  \/ XVerified
  \/ XUnverified

SpecExecutor == InitExecutor /\ [][NextExecutor]_vars

\* ------------------------------------------------ functions taken alone
\* The program at rest while one function is followed in call.
RestOf(color) ==
  /\ color_indicator = color
  /\ auto_mode_var = FALSE
  /\ processing_event = FALSE
  /\ board_positions = FALSE
  /\ last_fen_by_color = [x \in Colors |-> 0]
  /\ _consecutive_failures = 0
  /\ lpc = [l \in Loops \cup RacingLoops |-> "idle"]
  /\ ppc = [t \in Threads |-> "done"]
  /\ move_data = [t \in Threads |-> 0]
  /\ current_position = NoSample
  /\ move_detected = FALSE
  /\ seed_fen = 0
  /\ update_status = ""
  /\ btn_play = "none"
  /\ outcome = "none"
  /\ verification_position = NoSample
  /\ failRun = 0
  /\ played = 0
  /\ obs = NoObs
  /\ ex = NoExec

AtRest == RestOf("w")

RestUnchanged ==
  UNCHANGED << color_indicator, auto_mode_var, processing_event,
               board_positions, last_fen_by_color, _consecutive_failures, lpc,
               ppc, move_data, current_position, move_detected, seed_fen,
               update_status, btn_play, outcome, verification_position,
               failRun, played, obs, ex >>

\* ------------------------------------------- the retries of one dispatch
\* process_move from _extract_board_position to the oracle's answer:
\* call.samples counts the sampling attempts made, call.oracle_calls the calls
\* of get_best_move, call.auto is root.auto_mode_var, call.status the last
\* message issued, call.why what the last failed attempt lacked, call.fen and
\* call.mate_flag the oracle's answer.
InitDispatch ==
  /\ AtRest
  /\ call \in {[fn |-> "process_move", pc |-> "sample", samples |-> 0,
                 oracle_calls |-> 0, result |-> "none", status |-> "",
                 why |-> "none", fen |-> 0, mate_flag |-> FALSE,
                 auto |-> a] : a \in BOOLEAN}

\* One attempt of _extract_board_position finds no image, no board or no
\* position: the next attempt, or None after the last one.
DSampleFailed ==
  /\ call.fn = "process_move" /\ call.pc = "sample"
  /\ \E why \in {"image", "board", "fen"} :
       IF call.samples + 1 < MAX_FEN_EXTRACTION_RETRIES
         THEN call' = [call EXCEPT
                !.samples = @ + 1,
                !.why = why,
                !.status = IF why = "board" THEN "Retrying board detection"
                           ELSE IF why = "fen" THEN "Retrying FEN extraction"
                           ELSE @]
         ELSE call' = [call EXCEPT
                !.samples = @ + 1,
                !.why = why,
                !.pc = "done",
                !.result = "sensor_fail",
                !.status = IF why = "board" THEN "No board detected after retries"
                           ELSE IF why = "fen" THEN "Error: Could not detect board/FEN"
                           ELSE @,
                !.auto = IF why = "image" THEN @ ELSE FALSE]
  /\ RestUnchanged

\* One attempt finds a position: board_data is returned.
DSampled ==
  /\ call.fn = "process_move" /\ call.pc = "sample"
  /\ call' = [call EXCEPT !.samples = @ + 1, !.pc = "oracle"]
  /\ RestUnchanged

\* _calculate_best_move: get_best_move is called once; it answers with a
\* move, or fails, which ends the dispatch in the except: block.
DOracle ==
  /\ call.fn = "process_move" /\ call.pc = "oracle"
  /\ \E answered \in BOOLEAN, p \in Placements, m \in BOOLEAN :
       call' = [call EXCEPT
         !.oracle_calls = @ + 1,
         !.pc = "done",
         !.fen = IF answered THEN p ELSE @,
         !.mate_flag = answered /\ m,
         !.result = IF answered THEN "move" ELSE "oracle_fail",
         !.status = IF answered THEN @ ELSE "Error",
         !.auto = IF answered THEN @ ELSE FALSE]
  /\ RestUnchanged

NextDispatch ==
  \/ DSampleFailed
  \/ DSampled
  \/ DOracle

SpecDispatch == InitDispatch /\ [][NextDispatch]_vars

\* ------------------------------------------------- positions as text (FEN)
\* A position is the sequence of its fields; the first field, the placement,
\* is the sequence of its rows (the text between the slashes), a row the
\* sequence of its characters.  A move is the sequence of its characters.
isdigit(ch) == ch \in {"0", "1", "2", "3", "4", "5", "6", "7", "8", "9"}

int(ch) ==
  CASE ch = "0" -> 0 [] ch = "1" -> 1 [] ch = "2" -> 2 [] ch = "3" -> 3
    [] ch = "4" -> 4 [] ch = "5" -> 5 [] ch = "6" -> 6 [] ch = "7" -> 7
    [] ch = "8" -> 8 [] ch = "9" -> 9

\* ord(ch) - ord('a') for the file letters.
ord_minus_a(ch) ==
  CASE ch = "a" -> 0 [] ch = "b" -> 1 [] ch = "c" -> 2 [] ch = "d" -> 3
    [] ch = "e" -> 4 [] ch = "f" -> 5 [] ch = "g" -> 6 [] ch = "h" -> 7

RECURSIVE expand_row(_)
expand_row(row) ==
  IF row = << >> THEN << >>
  ELSE (IF isdigit(Head(row)) THEN [i \in 1..int(Head(row)) |-> " "]
        ELSE << Head(row) >>) \o expand_row(Tail(row))

RECURSIVE Flatten(_)
Flatten(rows) ==
  IF rows = << >> THEN << >>
  ELSE expand_row(Head(rows)) \o Flatten(Tail(rows))

fen_to_list(fen) == Flatten(fen[1])

\* The flat index of a square, 0 for a8 to 63 for h1.
algebraic_to_index(sq) == (8 - int(sq[2])) * 8 + ord_minus_a(sq[1])

\* list[i] of the code, whose lists count from 0.
At(list, i) == list[i + 1]

my_pieces(color) ==
  IF color = "w" THEN {"P", "N", "B", "R", "Q", "K"}
  ELSE {"p", "n", "b", "r", "q", "k"}

EmptyRow == << "8" >>

\* A position of six fields with the given rows of ranks 8 to 1.
Fen(rows) == << rows, "w", "-", "-", "0", "1" >>

\* ------------------------------------------ did_my_piece_move taken alone
unchanged_elsewhere(before_list, after_list, squares) ==
  \A idx \in 0..(Min(Len(before_list), Len(after_list)) - 1) :
    At(before_list, idx) = At(after_list, idx) \/ idx \in squares

did_my_piece_move(color, before_fen, after_fen, move) ==
  LET before_list == fen_to_list(before_fen)
      after_list  == fen_to_list(after_fen)
      start_i     == algebraic_to_index(SubSeq(move, 1, 2))
      end_i       == algebraic_to_index(SubSeq(move, 3, 4))
      moved_from  == /\ At(before_list, start_i) \in my_pieces(color)
                     /\ At(after_list, start_i) = " "
      moved_to    == /\ At(after_list, end_i) \in my_pieces(color)
                     /\ At(before_list, end_i) = " "
  IN  /\ moved_from
      /\ moved_to
      /\ unchanged_elsewhere(before_list, after_list, {start_i, end_i})

\* The rows that ranks 2 and 4 take in the positions tried, and the moves.
MovedRows ==
  { << "8" >>, << "4", "P", "3" >>, << "4", "N", "3" >>, << "4", "p", "3" >>,
    << "4", "n", "3" >>, << "P", "3", "P", "3" >>, << "P", "7" >> }

MovedMoves ==
  { << "e", "2", "e", "4" >>, << "e", "4", "e", "2" >>,
    << "a", "2", "e", "4" >>, << "a", "2", "a", "4" >> }

InitMoved ==
  /\ \E c \in Colors : RestOf(c)
  /\ call \in {[fn |-> "did_my_piece_move", pc |-> "called",
                 before_fen |-> Fen(<< EmptyRow, EmptyRow, EmptyRow, EmptyRow,
                                       b4, EmptyRow, b2, EmptyRow >>),
                 after_fen |-> Fen(<< EmptyRow, EmptyRow, EmptyRow, EmptyRow,
                                      a4, EmptyRow, a2, EmptyRow >>),
                 move |-> m, ret |-> FALSE] :
               b4 \in MovedRows, b2 \in MovedRows, a4 \in MovedRows,
               a2 \in MovedRows, m \in MovedMoves}

ApplyMoved ==
  /\ call.fn = "did_my_piece_move" /\ call.pc = "called"
  /\ call' = [call EXCEPT
       !.pc = "returned",
       !.ret = did_my_piece_move(color_indicator, call.before_fen,
                                 call.after_fen, call.move)]
  /\ RestUnchanged

SpecMoved == InitMoved /\ [][ApplyMoved]_vars

\* ------------------------------------------ did_castling_move taken alone
did_castling_move_strict(color, before_fen, after_fen, king_move, rook_move) ==
  LET before_list  == fen_to_list(before_fen)
      after_list   == fen_to_list(after_fen)
      king_start_i == algebraic_to_index(SubSeq(king_move, 1, 2))
      king_end_i   == algebraic_to_index(SubSeq(king_move, 3, 4))
      rook_start_i == algebraic_to_index(SubSeq(rook_move, 1, 2))
      rook_end_i   == algebraic_to_index(SubSeq(rook_move, 3, 4))
      king_char    == At(before_list, king_start_i)
      rook_char    == At(before_list, rook_start_i)
  IN  /\ king_char \in my_pieces(color)
      /\ At(after_list, king_start_i) = " "
      /\ At(after_list, king_end_i) = king_char
      /\ rook_char \in my_pieces(color)
      /\ At(after_list, rook_start_i) = " "
      /\ At(after_list, rook_end_i) = rook_char
      /\ unchanged_elsewhere(before_list, after_list,
           {king_start_i, king_end_i, rook_start_i, rook_end_i})

did_castling_move(color, before_fen, after_fen, king_move, rook_move) ==
  LET before_list     == fen_to_list(before_fen)
      after_list      == fen_to_list(after_fen)
      king_start_i    == algebraic_to_index(SubSeq(king_move, 1, 2))
      king_end_i      == algebraic_to_index(SubSeq(king_move, 3, 4))
      rook_start_i    == algebraic_to_index(SubSeq(rook_move, 1, 2))
      rook_end_i      == algebraic_to_index(SubSeq(rook_move, 3, 4))
      king_char       == At(before_list, king_start_i)
      rook_char       == At(before_list, rook_start_i)
      king_moved_from == /\ king_char \in my_pieces(color)
                         /\ At(after_list, king_start_i) = " "
      king_moved_to   == At(after_list, king_end_i) = king_char
      rook_moved_from == /\ rook_char \in my_pieces(color)
                         /\ At(after_list, rook_start_i) = " "
      rook_moved_to   == At(after_list, rook_end_i) = rook_char
  IN  king_moved_from /\ king_moved_to /\ rook_moved_from /\ rook_moved_to

\* The rows that ranks 1 and 2 take in the positions tried, and the legs.
CastledRows ==
  { << "4", "K", "2", "R" >>, << "5", "R", "K", "1" >>,
    << "R", "3", "K", "2", "R" >>, << "R", "4", "R", "K", "1" >>,
    << "2", "K", "R", "3", "R" >>, << "R", "3", "K", "3" >>,
    << "2", "K", "R", "4" >>, << "4", "k", "2", "r" >>,
    << "5", "r", "k", "1" >> }

CastledFens ==
  {Fen(<< EmptyRow, EmptyRow, EmptyRow, EmptyRow, EmptyRow, EmptyRow, r2,
          r1 >>) : r2 \in { << "8" >>, << "P", "7" >> }, r1 \in CastledRows}

KingMoves == { << "e", "1", "g", "1" >>, << "e", "1", "c", "1" >> }

RookMoves == { << "h", "1", "f", "1" >>, << "a", "1", "d", "1" >> }

InitCastled ==
  /\ \E c \in Colors : RestOf(c)
  /\ call \in {[fn |-> "did_castling_move", pc |-> "called",
                 before_fen |-> b, after_fen |-> a, king_move |-> k,
                 rook_move |-> r, ret |-> FALSE] :
               b \in CastledFens, a \in CastledFens, k \in KingMoves,
               r \in RookMoves}

ApplyCastled ==
  /\ call.fn = "did_castling_move" /\ call.pc = "called"
  /\ call' = [call EXCEPT
       !.pc = "returned",
       !.ret = did_castling_move(color_indicator, call.before_fen,
                                 call.after_fen, call.king_move,
                                 call.rook_move)]
  /\ RestUnchanged

SpecCastled == InitCastled /\ [][ApplyCastled]_vars

\* ------------------------------------------- castling rights taken alone
expand_fen_row(row) == expand_row(row)

is_castling_possible_rook_only(fen, color, side) ==
  LET rows == fen[1]
      home == expand_fen_row(IF color = "w" THEN rows[Len(rows)] ELSE rows[1])
      rook == IF color = "w" THEN "R" ELSE "r"
  IN  IF Len(home) # 8 THEN FALSE
      ELSE IF side = "kingside" THEN At(home, 7) = rook
      ELSE IF side = "queenside" THEN At(home, 0) = rook
      ELSE FALSE

\* The corners taken for each other.
is_castling_possible_swapped(fen, color, side) ==
  LET rows == fen[1]
      home == expand_fen_row(IF color = "w" THEN rows[Len(rows)] ELSE rows[1])
  IN  IF Len(home) # 8 \/ At(home, 4) # (IF color = "w" THEN "K" ELSE "k")
        THEN FALSE
      ELSE IF side = "kingside"
        THEN At(home, 0) = (IF color = "w" THEN "R" ELSE "r")
      ELSE IF side = "queenside"
        THEN At(home, 7) = (IF color = "w" THEN "R" ELSE "r")
      ELSE FALSE

is_castling_possible(fen, color, side) ==
  LET rows == fen[1]
  IN  IF color = "w"
        THEN LET last_row == expand_fen_row(rows[Len(rows)])
             IN  IF Len(last_row) # 8 \/ At(last_row, 4) # "K" THEN FALSE
                 ELSE IF side = "kingside" THEN At(last_row, 7) = "R"
                 ELSE IF side = "queenside" THEN At(last_row, 0) = "R"
                 ELSE FALSE
        ELSE LET first_row == expand_fen_row(rows[1])
             IN  IF Len(first_row) # 8 \/ At(first_row, 4) # "k" THEN FALSE
                 ELSE IF side = "kingside" THEN At(first_row, 7) = "r"
                 ELSE IF side = "queenside" THEN At(first_row, 0) = "r"
                 ELSE FALSE

\* The user's flag decides for the player's colour, the board alone for the
\* other colour.
_should_add_castling_right_unflagged(target_color, side, player_color, side_var, fen) ==
  is_castling_possible(fen, target_color, side)

_should_add_castling_right(target_color, side, player_color, side_var, fen) ==
  IF ~is_castling_possible(fen, target_color, side) THEN FALSE
  ELSE IF target_color = player_color THEN side_var
  ELSE TRUE

_get_color_castling_rights(target_color, player_color, kingside_var, queenside_var, fen) ==
  (IF _should_add_castling_right(target_color, "kingside", player_color,
                                 kingside_var, fen)
     THEN << (IF target_color = "w" THEN "K" ELSE "k") >> ELSE << >>)
  \o
  (IF _should_add_castling_right(target_color, "queenside", player_color,
                                 queenside_var, fen)
     THEN << (IF target_color = "w" THEN "Q" ELSE "q") >> ELSE << >>)

\* The castling field is the sequence of its letters.
update_fen_castling_rights(color, kingside_var, queenside_var, fen) ==
  IF Len(fen) < 6 THEN fen
  ELSE LET combined_castling ==
             _get_color_castling_rights("w", color, kingside_var,
                                        queenside_var, fen)
             \o _get_color_castling_rights("b", color, kingside_var,
                                           queenside_var, fen)
       IN  [fen EXCEPT ![3] = IF combined_castling = << >> THEN << "-" >>
                              ELSE combined_castling]

\* The rows that ranks 8 and 1 take in the positions tried.
HomeRows ==
  { << "R", "N", "B", "Q", "K", "2", "R" >>,
    << "1", "N", "B", "Q", "K", "2", "R" >>,
    << "R", "3", "K", "2", "R" >>, << "R", "3", "K", "3" >>,
    << "R", "4", "K", "1", "R" >>, << "R", "3", "K", "2" >>,
    << "R", "3", "K", "2", "R", "1" >>, << "r", "3", "K", "2", "r" >>,
    << "r", "n", "b", "q", "k", "2", "r" >>, << "r", "3", "k", "2", "r" >>,
    << "4", "k", "2", "r" >>, << "r", "3", "k", "3" >>,
    << "r", "3", "k", "2" >>, << "8" >> }

HomeFens ==
  {Fen(<< r8, EmptyRow, EmptyRow, EmptyRow, EmptyRow, EmptyRow, EmptyRow,
          r1 >>) : r8 \in HomeRows, r1 \in HomeRows}

InitRights ==
  /\ \E c \in Colors : RestOf(c)
  /\ call \in
       {[fn |-> "is_castling_possible", pc |-> "called", fen |-> f,
         color |-> c, side |-> s, ret |-> FALSE] :
        f \in HomeFens, c \in Colors, s \in {"kingside", "queenside"}}
       \cup
       {[fn |-> "update_fen_castling_rights", pc |-> "called", fen |-> f,
         kingside_var |-> k, queenside_var |-> q, ret |-> << >>] :
        f \in HomeFens, k \in BOOLEAN, q \in BOOLEAN}

ApplyPossible ==
  /\ call.fn = "is_castling_possible" /\ call.pc = "called"
  /\ call' = [call EXCEPT
       !.pc = "returned",
       !.ret = is_castling_possible(call.fen, call.color, call.side)]
  /\ RestUnchanged

ApplyRights ==
  /\ call.fn = "update_fen_castling_rights" /\ call.pc = "called"
  /\ call' = [call EXCEPT
       !.pc = "returned",
       !.ret = update_fen_castling_rights(color_indicator, call.kingside_var,
                                          call.queenside_var, call.fen)]
  /\ RestUnchanged

SpecRights == InitRights /\ [][ApplyPossible \/ ApplyRights]_vars

\* ------------------------------------------ move classification taken alone
\* The castling side of a move, "none" for a move that is not castling.
castling_side(best_move) ==
  IF best_move \in { << "e", "1", "g", "1" >>, << "e", "1", "c", "1" >>,
                     << "e", "8", "g", "8" >>, << "e", "8", "c", "8" >> }
    THEN IF best_move \in { << "e", "1", "g", "1" >>,
                            << "e", "8", "g", "8" >> }
           THEN "kingside" ELSE "queenside"
    ELSE "none"

rook_move_white(color, king_move) ==
  IF ord_minus_a(king_move[3]) > ord_minus_a(king_move[1])
    THEN << "h", "1", "f", "1" >> ELSE << "a", "1", "d", "1" >>

\* The rook leg that goes with a king move, in _execute_castling_pieces and
\* in _verify_castling_execution alike.
rook_move(color, king_move) ==
  LET is_kingside == ord_minus_a(king_move[3]) > ord_minus_a(king_move[1])
  IN  IF color = "w"
        THEN IF is_kingside THEN << "h", "1", "f", "1" >>
             ELSE << "a", "1", "d", "1" >>
        ELSE IF is_kingside THEN << "h", "8", "f", "8" >>
             ELSE << "a", "8", "d", "8" >>

is_pawn_promotion_move(move_notation) ==
  /\ Len(move_notation) = 5
  /\ move_notation[5] \in {"q", "r", "b", "n", "Q", "R", "B", "N"}

lower_kept(ch) == ch

\* str.lower on the characters a move can end with.
lower(ch) ==
  CASE ch = "Q" -> "q" [] ch = "R" -> "r" [] ch = "B" -> "b"
    [] ch = "N" -> "n" [] ch = "K" -> "k" [] ch = "P" -> "p"
    [] OTHER -> ch

get_promotion_piece_from_move(move_notation) ==
  IF Len(move_notation) = 5 THEN lower(move_notation[5]) ELSE "None"

\* The moves tried: a from-square, a to-square and nothing or one character.
ClassifyMoves ==
  { << f[1], f[2], t[1], t[2] >> \o s :
      f \in { << "e", "1" >>, << "e", "8" >>, << "e", "7" >>,
              << "a", "2" >>, << "h", "1" >> },
      t \in { << "g", "1" >>, << "c", "1" >>, << "g", "8" >>,
              << "c", "8" >>, << "e", "8" >>, << "a", "1" >>,
              << "f", "1" >> },
      s \in { << >>, << "q" >>, << "r" >>, << "b" >>, << "n" >>, << "Q" >>,
              << "R" >>, << "B" >>, << "N" >>, << "k" >>, << "K" >>,
              << "p" >>, << "1" >> } }

InitClassify ==
  /\ \E c \in Colors : RestOf(c)
  /\ call \in {[fn |-> f, pc |-> "called", move |-> m, side |-> "none",
                 rook |-> << >>, promotion |-> FALSE, piece |-> "None"] :
               f \in {"_execute_move", "execute_normal_move"},
               m \in ClassifyMoves}

\* The castling side of the move and, for a castling move, its rook leg.
ApplyCastlingLeg ==
  /\ call.fn = "_execute_move" /\ call.pc = "called"
  /\ call' = [call EXCEPT
       !.pc = "returned",
       !.side = castling_side(call.move),
       !.rook = IF castling_side(call.move) = "none" THEN << >>
                ELSE rook_move(color_indicator, call.move)]
  /\ RestUnchanged

ApplyPromotion ==
  /\ call.fn = "execute_normal_move" /\ call.pc = "called"
  /\ call' = [call EXCEPT
       !.pc = "returned",
       !.promotion = is_pawn_promotion_move(call.move),
       !.piece = IF is_pawn_promotion_move(call.move)
                   THEN get_promotion_piece_from_move(call.move)
                   ELSE "None"]
  /\ RestUnchanged

SpecClassify == InitClassify /\ [][ApplyCastlingLeg \/ ApplyPromotion]_vars

\* --------------------------------------- the promotion dialog taken alone
\* A box is what the sensor gives for one detected object: its corner, its
\* size, its confidence in hundredths and its class.  The board's box has
\* class 12; the squares are a tenth of its width of 80.
PROMOTION_PIECE_IDS == {10, 7, 9, 8}

PROMOTION_PIECE_IDS_BLACK == {4, 1, 3, 2}

BoardBox ==
  [x |-> 0, y |-> 0, w |-> 80, h |-> 80, confidence |-> 90, class_id |-> 12]

detect_promotion_pieces(boxes, chessboard_box, color) ==
  LET chessboard_width == chessboard_box.w
      square_size == chessboard_width \div 8
      target_promotion_ids == IF color = "w" THEN PROMOTION_PIECE_IDS
                              ELSE PROMOTION_PIECE_IDS_BLACK
      rel_x(box) == box.x + box.w \div 2 - chessboard_box.x
      rel_y(box) == box.y + box.h \div 2 - chessboard_box.y
      Kept(box) ==
        /\ box.class_id \in target_promotion_ids
        /\ box.confidence > 40
        /\ -square_size < rel_x(box)
        /\ rel_x(box) < chessboard_width + square_size
        /\ -square_size < rel_y(box)
        /\ rel_y(box) < chessboard_width + square_size
      kept == SelectSeq(boxes, Kept)
  IN  [i \in 1..Len(kept) |->
        [box |-> kept[i],
         class_id |-> kept[i].class_id,
         is_promotion_rank |->
           \/ color = "w" /\ rel_y(kept[i]) \div square_size = 0
           \/ color = "b" /\ rel_y(kept[i]) \div square_size = 7]]

is_promotion_dialog_visible(boxes, chessboard_box, color, min_pieces) ==
  Len(detect_promotion_pieces(boxes, chessboard_box, color)) >= min_pieces

\* The piece boxes tried: queens of either colour, on row 0, on row 7 or
\* beyond the board's margin, one of them with a low confidence.
DialogBoxes ==
  { [x |-> 30, y |-> b[3], w |-> 10, h |-> 10, confidence |-> b[2],
     class_id |-> b[1]] :
    b \in { << 10, 90, 0 >>, << 10, 90, 70 >>, << 10, 30, 0 >>,
            << 10, 90, 90 >>, << 4, 90, 70 >>, << 4, 90, 0 >> } }

\* What one sample can be: no image, no box at all, four piece boxes without
\* the board's box, or the four with it.
DialogSamples ==
  { [img |-> FALSE, boxes |-> << >>], [img |-> TRUE, boxes |-> << >>] }
  \cup
  { [img |-> TRUE, boxes |-> << b1, b2, b3, b4 >> \o board] :
      b1 \in DialogBoxes, b2 \in DialogBoxes, b3 \in DialogBoxes,
      b4 \in DialogBoxes, board \in { << >>, << BoardBox >> } }

InitDialog ==
  /\ \E c \in Colors : RestOf(c)
  /\ call = [fn |-> "wait_for_promotion_dialog", pc |-> "waiting",
             checks |-> 0, found |-> FALSE, boxes |-> << >>]

\* One turn of the while loop: a sample; the dialog is seen in it, or the wait
\* goes on after check_interval.
DialogCheck ==
  /\ call.fn = "wait_for_promotion_dialog" /\ call.pc = "waiting"
  /\ call.checks < max_checks
  /\ \E s \in DialogSamples :
       LET chessboard_boxes ==
             SelectSeq(s.boxes, LAMBDA box : box.class_id = 12)
       IN  IF /\ s.img
              /\ s.boxes # << >>
              /\ chessboard_boxes # << >>
              /\ is_promotion_dialog_visible(s.boxes, chessboard_boxes[1],
                                             color_indicator, 4)
             THEN call' = [call EXCEPT !.pc = "returned", !.found = TRUE,
                                       !.boxes = s.boxes]
             ELSE call' = [call EXCEPT !.checks = @ + 1]
  /\ RestUnchanged

\* The loop's condition fails: None.
DialogTimeout ==
  /\ call.fn = "wait_for_promotion_dialog" /\ call.pc = "waiting"
  /\ call.checks >= max_checks
  /\ call' = [call EXCEPT !.pc = "returned"]
  /\ RestUnchanged

SpecDialog == InitDialog /\ [][DialogCheck \/ DialogTimeout]_vars

\* ------------------------------------------ one attempt of a normal move
\* _attempt_single_move: call.moved says that the physical move was made,
\* call.sample what the sample taken for a promotion gave, call.resolver that
\* handle_pawn_promotion was called, call.result what the attempt returns.
InitAttempt ==
  /\ \E c \in Colors : RestOf(c)
  /\ call \in {[fn |-> "_attempt_single_move", pc |-> "start", move |-> m,
                 moved |-> FALSE, sample |-> "none", resolver |-> FALSE,
                 promotion_success |-> FALSE, result |-> "none"] :
               m \in ClassifyMoves}

\* No position before the move, or no squares for it: the attempt returns.
\* Otherwise the piece is moved, and a promotion goes on to its sample.
AttemptMove ==
  /\ call.fn = "_attempt_single_move" /\ call.pc = "start"
  /\ \E original_fen \in BOOLEAN, move_positions \in BOOLEAN :
       IF ~original_fen \/ ~move_positions
         THEN call' = [call EXCEPT !.pc = "returned", !.result = "retry"]
         ELSE call' = [call EXCEPT
                !.moved = TRUE,
                !.pc = IF is_pawn_promotion_move(call.move) THEN "sample"
                       ELSE "verify"]
  /\ RestUnchanged

\* The sample between the pawn leg and the verification: handle_pawn_promotion
\* is called when it gives an image, boxes, the board's box and a position.
AttemptSample ==
  /\ call.fn = "_attempt_single_move" /\ call.pc = "sample"
  /\ \E s \in {"no_image", "no_boxes", "no_board", "no_fen", "raised",
               "position"}, success \in BOOLEAN :
       call' = [call EXCEPT
         !.pc = "verify",
         !.sample = s,
         !.resolver = (s = "position"),
         !.promotion_success = (s = "position" /\ success)]
  /\ RestUnchanged

AttemptVerify ==
  /\ call.fn = "_attempt_single_move" /\ call.pc = "verify"
  /\ \E verified \in BOOLEAN, skip \in BOOLEAN :
       call' = [call EXCEPT
         !.pc = "returned",
         !.result = IF verified THEN "verified"
                    ELSE IF skip THEN "unverified" ELSE "retry"]
  /\ RestUnchanged

SpecAttempt ==
  InitAttempt /\ [][AttemptMove \/ AttemptSample \/ AttemptVerify]_vars

\* ------------------------------------------- pipelines and a silent oracle
\* The pipelines started by the play control, with get_best_move in two
\* steps: the position is sent and the thread waits in engine.stdout.readline()
\* (ppc "waiting"), which returns when the engine writes a line or closes its
\* output.  The program's own steps are taken when they can be; nothing
\* obliges the user to play or the engine to write.
PAsk(t) ==
  /\ ppc[t] = "extract"
  /\ board_positions' = TRUE
  /\ ppc' = [ppc EXCEPT ![t] = "waiting"]
  /\ Calls(NoSample, FALSE, 0, "Processing... Engine is thinking...", "none",
           "none")
  /\ UNCHANGED << color_indicator, auto_mode_var, processing_event,
                  last_fen_by_color, _consecutive_failures, lpc, move_data,
                  failRun, played, obs, ex, call >>

\* readline returns: a bestmove line and the position after it, as in POracle,
\* or the end of the output, as in POracleFailed.
PAnswer(t) ==
  /\ ppc[t] = "waiting"
  /\ \/ /\ \E board_data \in Samples, p \in Placements :
             /\ move_data' = [move_data EXCEPT ![t] = p]
             /\ last_fen_by_color' = update_last_fen_for_color(
                  [placement |-> p, active |-> opp_color(board_data.active)],
                  last_fen_by_color)
        /\ ppc' = [ppc EXCEPT ![t] = "execute"]
        /\ Calls(NoSample, FALSE, 0, "", "none", "none")
        /\ UNCHANGED << auto_mode_var, processing_event >>
     \/ /\ _handle_processing_error(t, "oracle_fail")
        /\ UNCHANGED last_fen_by_color
  /\ UNCHANGED << color_indicator, board_positions, _consecutive_failures,
                  lpc, failRun, played, obs, ex, call >>

NextLive ==
  \/ ManualPlay
  \/ \E t \in Threads : PStart(t)
  \/ \E t \in Threads : PInit(t)
  \/ \E t \in Threads : PExtractFailed(t)
  \/ \E t \in Threads : PExtractFault(t)
  \/ \E t \in Threads : PAsk(t)
  \/ \E t \in Threads : PAnswer(t)
  \/ \E t \in Threads : PExecuteVerified(t)
  \/ \E t \in Threads : PExecuteUnverified(t)

SpecLive ==
  /\ InitLoops
  /\ [][NextLive]_vars
  /\ \A t \in Threads :
       /\ WF_vars(PStart(t))
       /\ WF_vars(PInit(t))
       /\ WF_vars(PExtractFailed(t) \/ PExtractFault(t) \/ PAsk(t))
       /\ WF_vars(PExecuteVerified(t) \/ PExecuteUnverified(t))

\* --------------------------------------------------- the oracle taken alone
\* One call of _calculate_best_move: get_best_move from _setup_engine to its
\* return or its exception, then what the caller makes of it.  call.engine is
\* whether the engine process can be started, call.answer the move of the
\* engine's bestmove line (the empty move when its output ends without one),
\* call.mate and call.next_fen the rest of its output; call.returned and
\* call.raised tell how get_best_move ended, call.ret what it returned,
\* call.auto is root.auto_mode_var and call.status the last message issued.
_disable_auto_mode_params == 2

\* A call of _disable_auto_mode with the positional arguments args: a call
\* with another number of arguments than the function has parameters raises
\* TypeError; otherwise autoplay is switched off.
_disable_auto_mode(args, auto) ==
  IF Len(args) # _disable_auto_mode_params
    THEN [raised |-> TRUE, auto |-> auto]
    ELSE [raised |-> FALSE, auto |-> FALSE]

InitOracle ==
  /\ AtRest
  /\ call \in {[fn |-> "get_best_move", pc |-> "setup", engine |-> e,
                 answer |-> m, mate |-> mt, next_fen |-> p,
                 returned |-> FALSE, raised |-> FALSE,
                 ret |-> << << >>, 0, FALSE >>, auto |-> a, status |-> ""] :
               e \in {"started", "missing"},
               m \in ClassifyMoves \cup { << >> },
               mt \in BOOLEAN, p \in Placements, a \in BOOLEAN}

\* _setup_engine: _initialize_engine returns the engine process or raises.
_setup_engine ==
  /\ call.fn = "get_best_move" /\ call.pc = "setup"
  /\ call' = [call EXCEPT
       !.status = "Processing... Engine is thinking...",
       !.pc = IF call.engine = "started" THEN "go" ELSE "except"]
  /\ RestUnchanged

\* _get_move_from_engine and the test of its answer.
_get_move_from_engine ==
  /\ call.fn = "get_best_move" /\ call.pc = "go"
  /\ call' = [call EXCEPT
       !.pc = IF call.answer = << >> THEN "failure" ELSE "position"]
  /\ RestUnchanged

\* The engine gave a move: the status, _get_updated_fen, the return.
_get_updated_fen ==
  /\ call.fn = "get_best_move" /\ call.pc = "position"
  /\ call' = [call EXCEPT
       !.status = "Best move found",
       !.returned = TRUE,
       !.ret = << call.answer, call.next_fen, call.mate >>,
       !.pc = "caller"]
  /\ RestUnchanged

\* _handle_engine_failure, called inside the try: block: the dialog, then
\* _disable_auto_mode(auto_mode_var), then the triple.
_handle_engine_failure ==
  /\ call.fn = "get_best_move" /\ call.pc = "failure"
  /\ LET d == _disable_auto_mode(<< "auto_mode_var" >>, call.auto) IN
       call' = [call EXCEPT
         !.auto = d.auto,
         !.returned = ~d.raised,
         !.ret = << << >>, 0, FALSE >>,
         !.pc = IF d.raised THEN "except" ELSE "caller"]
  /\ RestUnchanged

\* except Exception in get_best_move: cleanup_engine, then _handle_error: the
\* dialog, _disable_auto_mode(auto_mode_var), the triple.  An exception
\* raised here leaves get_best_move.
_handle_error ==
  /\ call.fn = "get_best_move" /\ call.pc = "except"
  /\ LET d == _disable_auto_mode(<< "auto_mode_var" >>, call.auto) IN
       call' = [call EXCEPT
         !.auto = d.auto,
         !.returned = ~d.raised,
         !.raised = d.raised,
         !.ret = << << >>, 0, FALSE >>,
         !.pc = "caller"]
  /\ RestUnchanged

\* The caller: _calculate_best_move reports a missing move; an exception
\* passes through it to the except: block of process_move.
_calculate_best_move ==
  /\ call.fn = "get_best_move" /\ call.pc = "caller"
  /\ call' = [call EXCEPT
       !.pc = "done",
       !.status = IF call.raised THEN "Error"
                  ELSE IF call.ret[1] = << >> THEN "No valid move found!"
                  ELSE @,
       !.auto = IF call.raised THEN FALSE ELSE @]
  /\ RestUnchanged

SpecOracle ==
  InitOracle /\ [][ \/ _setup_engine
                    \/ _get_move_from_engine
                    \/ _get_updated_fen
                    \/ _handle_engine_failure
                    \/ _handle_error
                    \/ _calculate_best_move ]_vars

\* ------------------------------------------- the castling opt-in taken alone
\* _execute_move from the classification of the oracle's move to the choice
\* of the path.  call.kingside_var and call.queenside_var are the user's
\* flags as the dispatch received them, call.kingside_check and
\* call.queenside_check the checkboxes behind them, call.path the path taken
\* ("blocked" when the castling path finds castling not possible).
_should_execute_castling(is_castle_move, k_val, q_val) ==
  is_castle_move /\ (k_val \/ q_val)

_auto_enable_castling_checkbox(side, k_val, q_val, c) ==
  IF side = "kingside" /\ ~k_val
    THEN [c EXCEPT !.kingside_check = TRUE,
                   !.status = "Auto-enabled Kingside Castle"]
  ELSE IF side = "queenside" /\ ~q_val
    THEN [c EXCEPT !.queenside_check = TRUE,
                   !.status = "Auto-enabled Queenside Castle"]
  ELSE c

InitOptIn ==
  /\ \E c \in Colors : RestOf(c)
  /\ call \in {[fn |-> "_execute_move", pc |-> "classify", move |-> m,
                 fen |-> Fen(<< r8, EmptyRow, EmptyRow, EmptyRow, EmptyRow,
                                EmptyRow, EmptyRow, r1 >>),
                 kingside_var |-> k, queenside_var |-> q,
                 kingside_check |-> k, queenside_check |-> q,
                 side |-> "none", path |-> "none", status |-> ""] :
               m \in ClassifyMoves, k \in BOOLEAN, q \in BOOLEAN,
               r8 \in { << "r", "3", "k", "2", "r" >>, << "8" >> },
               r1 \in { << "R", "3", "K", "2", "R" >>, << "R", "3", "K", "3" >> }}

\* is_two_square_king_move, then the gate.
_execute_move ==
  /\ call.fn = "_execute_move" /\ call.pc = "classify"
  /\ LET side == castling_side(call.move) IN
       call' = [call EXCEPT
         !.side = side,
         !.pc = IF _should_execute_castling(side # "none", call.kingside_var,
                                            call.queenside_var)
                  THEN "castling" ELSE "normal"]
  /\ RestUnchanged

\* _execute_castling_move: the checkbox, then is_castling_possible and
\* _perform_castling_move.
_execute_castling_move ==
  /\ call.fn = "_execute_move" /\ call.pc = "castling"
  /\ LET c == _auto_enable_castling_checkbox(call.side, call.kingside_var,
                                             call.queenside_var, call) IN
       call' = [c EXCEPT
         !.pc = "done",
         !.path = IF is_castling_possible(call.fen, color_indicator, call.side)
                    THEN "castling" ELSE "blocked"]
  /\ RestUnchanged

\* The else branch of _execute_move.
execute_normal_move ==
  /\ call.fn = "_execute_move" /\ call.pc = "normal"
  /\ call' = [call EXCEPT !.pc = "done", !.path = "normal"]
  /\ RestUnchanged

SpecOptIn ==
  InitOptIn /\ [][_execute_move \/ _execute_castling_move \/ execute_normal_move]_vars

\* ------------------------------------------------------------------ claims

\* C1: at most one pipeline is in flight at any time: no two process_move
\* invocations, whether started by the polling loop or by the play control,
\* are both between setting and clearing the in-flight flag.
C1_AtMostOneInFlight ==
  Cardinality({t \in Threads : ppc[t] \in InFlight}) <= 1

\* C2: every process_move invocation that sets the in-flight flag has cleared
\* it when it returns or faults, the initialisation step included: a thread
\* that goes past the flag test and ends leaves the flag clear.
C2_FlagClearedOnExit ==
  [][\A t \in Threads :
       (ppc[t] \in InFlight \cup {"init"} /\ ppc'[t] = "done")
         => ~processing_event']_vars

\* C3: on a tick whose sample shows our side to move, a move is reported only
\* if the sampled placement differs from the stored opponent placement, and
\* then the sampled placement is stored as the opponent placement in the same
\* step; when the two are equal nothing is reported and the map is unchanged.
C3_PlayerTurn ==
  [][(current_position'.ok = "ok" /\ current_position'.active = color_indicator)
       => LET opp == opp_color(color_indicator)
              p == current_position'.placement
          IN /\ move_detected' =>
                  /\ opp \in DOMAIN last_fen_by_color
                  /\ p # last_fen_by_color[opp]
                  /\ last_fen_by_color' = Put(last_fen_by_color, opp, p)
             /\ (opp \in DOMAIN last_fen_by_color /\ p = last_fen_by_color[opp])
                  => (~move_detected' /\ last_fen_by_color' = last_fen_by_color)]_vars

\* C3 witness: a tick with our side to move has reported a move and stored the
\* sampled placement in the opponent slot.
C3_Witness ==
  /\ current_position.ok = "ok"
  /\ current_position.active = color_indicator
  /\ move_detected
  /\ \E l \in Loops : lpc[l] = "detected"
  /\ last_fen_by_color[opp_color(color_indicator)] = current_position.placement

\* C4: for every tracker state and every sample, of two consecutive observe
\* steps given the same placement and side to move the second reports no move
\* (so a move is reported at most once).
C4_Idempotent ==
  obs.stage = 2 => ~obs.second

\* C4 witness: both steps are done and the first one reported a move.
C4_Witness ==
  obs.stage = 2 /\ obs.first /\ ~obs.second

\* C5: on a tick whose sample shows the opponent to move, the sampled placement
\* is in the opponent slot afterwards, the other slot is as it was, no move is
\* reported, no loop goes to the hand-over and no pipeline thread is started.
C5_OpponentTurn ==
  [][(current_position'.ok = "ok"
        /\ current_position'.active = opp_color(color_indicator))
       => LET opp == opp_color(color_indicator) IN
            /\ DOMAIN last_fen_by_color' = DOMAIN last_fen_by_color \cup {opp}
            /\ last_fen_by_color'[opp] = current_position'.placement
            /\ \A c \in DOMAIN last_fen_by_color \ {opp} :
                 last_fen_by_color'[c] = last_fen_by_color[c]
            /\ ~move_detected'
            /\ \A l \in Loops : lpc[l] # "detected" => lpc'[l] # "detected"
            /\ ppc' = ppc]_vars

\* C5 witness: a tick with the opponent to move has stored a placement that
\* differs from the one our own slot holds, and has gone back to waiting.
C5_Witness ==
  /\ current_position.ok = "ok"
  /\ current_position.active = opp_color(color_indicator)
  /\ ~move_detected
  /\ \E l \in Loops : lpc[l] = "loop"
  /\ color_indicator \in DOMAIN last_fen_by_color
  /\ last_fen_by_color[opp_color(color_indicator)] = current_position.placement
  /\ last_fen_by_color[color_indicator] # current_position.placement

\* C6: once a pipeline has played our move, a later sample that shows the
\* placement that move produced never makes the tracker report a move,
\* whichever side the sample shows to move.
C6_EchoIgnored ==
  [][(current_position'.ok = "ok" /\ played # 0
        /\ current_position'.placement = played)
       => ~move_detected']_vars

\* C7: while the opponent slot is absent or holds the empty string it was
\* constructed with, a tick with our side to move reports no move and hands
\* nothing over, whatever the sampled placement.
C7_UnseededNoChange ==
  [][(/\ current_position'.ok = "ok"
      /\ current_position'.active = color_indicator
      /\ \/ opp_color(color_indicator) \notin DOMAIN last_fen_by_color
         \/ last_fen_by_color[opp_color(color_indicator)] = 0)
       => /\ ~move_detected'
          /\ \A l \in Loops : lpc[l] # "detected" => lpc'[l] # "detected"]_vars

\* C8: every enable starts a loop at its seeding step; no loop reaches a tick
\* except through that step; the step sets both colour slots to the sampled
\* placement when the sample succeeds, leaves the map unchanged when it does
\* not, and goes on to the watching loop either way.
C8_Seeding ==
  [][/\ (~auto_mode_var /\ auto_mode_var')
          => \E l \in Loops : lpc[l] = "idle" /\ lpc'[l] = "seed"
     /\ \A l \in Loops :
          /\ lpc[l] = "idle" => lpc'[l] \in {"idle", "seed"}
          /\ (lpc[l] = "seed" /\ lpc'[l] # "seed") =>
               /\ lpc'[l] = "loop"
               /\ IF seed_fen' # 0
                    THEN /\ DOMAIN last_fen_by_color' = Colors
                         /\ \A c \in Colors : last_fen_by_color'[c] = seed_fen'
                    ELSE last_fen_by_color' = last_fen_by_color]_vars

\* C8 witness: the seeding sample succeeded, both slots hold its placement and
\* the loop is watching.
C8_Witness ==
  /\ seed_fen # 0
  /\ \E l \in Loops : lpc[l] = "loop"
  /\ DOMAIN last_fen_by_color = Colors
  /\ \A c \in Colors : last_fen_by_color[c] = seed_fen

C10_PipelineFailureCounted ==
  [][outcome' \in {"sensor_fail", "oracle_fail", "fault"}
       => _consecutive_failures' = _consecutive_failures + 1]_vars

\* C11: every way a pipeline ends without a played move (sampling given up, no
\* move from the oracle, a castling judged not possible, a move that did not
\* register, a caught fault) while autoplay is on issues a status message and
\* leaves autoplay off.
C11_FailureReportedAndStopped ==
  [][(auto_mode_var /\ outcome' \in {"sensor_fail", "oracle_fail", "not_possible",
                                      "failed", "fault"})
       => (update_status' # "" /\ ~auto_mode_var')]_vars

C13_UnverifiedSoftSuccess ==
  (ex.pc = "returned" /\ ex.skip /\ ex.verified = "no")
    => /\ ex.ret = "True"
       /\ update_status = "Move Played (unverified)"
       /\ ~auto_mode_var

\* C13 witness: a castling played once under the setting, not seen on the
\* board, with the call returned.
C13_Witness ==
  /\ ex.pc = "returned"
  /\ ex.skip
  /\ ex.castling
  /\ ex.verified = "no"
  /\ ex.moves = 1
  /\ ex.ret = "True"

\* C14: with the skip-verification setting off, an attempt whose verification
\* fails is followed by another attempt while fewer than 3 have been made; a
\* verified attempt returns True at once; the third failed attempt returns
\* False with a status message and autoplay off; the move is never played
\* more than 3 times in one call.
C14_RetryBudget ==
  [][(ex.pc = "attempt" /\ ~ex.skip) =>
       /\ ex'.verified = "yes" => (ex'.pc = "returned" /\ ex'.ret = "True")
       /\ (ex'.verified = "no" /\ ex.attempt < max_retries)
            => /\ ex'.pc = "attempt"
               /\ ex'.attempt = ex.attempt + 1
               /\ ex'.ret = "none"
       /\ (ex'.verified = "no" /\ ex.attempt >= max_retries)
            => /\ ex'.pc = "returned"
               /\ ex'.ret = "False"
               /\ update_status' = "Move failed to register"
               /\ ~auto_mode_var'
       /\ ex'.moves <= max_retries]_vars

\* C14 witness: three attempts played the move, none was verified, and the
\* call returned False.
C14_Witness ==
  /\ ex.pc = "returned"
  /\ ~ex.skip
  /\ ex.attempt = max_retries
  /\ ex.moves = max_retries
  /\ ex.ret = "False"

\* C15: the user's disabling of autoplay leaves every pipeline thread, the
\* in-flight flag and every loop where they are; a pipeline in flight leaves
\* flight only through one of its own exits; and a loop starts a tick only
\* when it finds autoplay on at the head of the loop.
C15_CooperativeCancel ==
  [][/\ (auto_mode_var /\ ~auto_mode_var' /\ update_status' = "" /\ outcome' = "none")
          => (ppc' = ppc /\ processing_event' = processing_event /\ lpc' = lpc)
     /\ \A t \in Threads : (ppc[t] \in InFlight /\ ppc'[t] # ppc[t])
          => /\ ppc'[t] \in InFlight \cup {"done"}
             /\ ppc'[t] = "done" => outcome' # "none"
     /\ \A l \in Loops : (lpc[l] # "tick" /\ lpc'[l] = "tick")
          => (lpc[l] = "loop" /\ auto_mode_var)]_vars

\* C15 witness: autoplay has just been disabled by the user with a pipeline
\* in flight and a tick in progress.
C15_Witness ==
  /\ ~auto_mode_var
  /\ btn_play = "enable"
  /\ update_status = ""
  /\ outcome = "none"
  /\ \E t \in Threads : ppc[t] \in InFlight
  /\ \E l \in Loops : lpc[l] = "tick"

\* C16: at most one polling loop runs at any time: whatever the sequence of
\* enables and disables, no two loop threads are past their seeding and
\* polling at once.
C16_OneLoop ==
  Cardinality({l \in RacingLoops : lpc[l] \in {"loop", "tick", "detected"}}) <= 1

\* C17: the poller never writes the placement map while a pipeline is between
\* setting and clearing the in-flight flag: a step of a loop thread that
\* changes the map is taken with no pipeline thread in flight.
C17_NoPollerWriteInFlight ==
  [][(lpc' # lpc /\ last_fen_by_color' # last_fen_by_color)
       => \A t \in Threads : ppc[t] \notin InFlight]_vars

\* C18: the player's own slot of the placement map is written only by a
\* pipeline whose move has been confirmed by verification: outside the
\* seeding, no step of a loop thread changes it, and a step that changes it
\* is a pipeline ending with a verified move.
C18_OwnSlotByPipeline ==
  [][LET own(m) == IF color_indicator \in DOMAIN m THEN m[color_indicator] ELSE 0
     IN (/\ \A l \in Loops : lpc[l] # "seed"
         /\ \/ own(last_fen_by_color') # own(last_fen_by_color)
            \/ (color_indicator \in DOMAIN last_fen_by_color')
                 # (color_indicator \in DOMAIN last_fen_by_color))
          => (lpc' = lpc /\ outcome' = "played")]_vars

\* C19: with the in-flight flag set or the board geometry unknown, a tick ends
\* at its guard: a step taken by a loop at the head of its tick (no pipeline
\* thread moves, no other loop is past the head) takes no sample, leaves the
\* placement map and the failure counter as they are and starts nothing.
C19_GuardedTick ==
  [][(/\ \A k \in Loops : lpc[k] \in {"idle", "loop"}
      /\ \E k \in Loops : lpc[k] = "loop"
      /\ processing_event \/ ~board_positions
      /\ ppc' = ppc)
       => /\ last_fen_by_color' = last_fen_by_color
          /\ _consecutive_failures' = _consecutive_failures
          /\ current_position' = NoSample
          /\ verification_position' = NoSample
          /\ \A k \in Loops : lpc'[k] \in {"idle", "loop"}]_vars

\* C19 witness: a loop is at the head of a tick with autoplay on and the
\* geometry known while a pipeline is in flight with the flag set.
C19_Witness ==
  /\ auto_mode_var
  /\ board_positions
  /\ processing_event
  /\ _consecutive_failures < _max_failures
  /\ \E l \in Loops : lpc[l] = "loop"
  /\ \E t \in Threads : ppc[t] \in InFlight

\* C20: after a reported move the scheduler hands a pipeline to a thread only
\* if the sample taken after the settle delay succeeded and shows our side to
\* move: the step that ends the hand-over starts a pipeline thread only then.
C20_HandOverOnlyIfStable ==
  [][\A l \in Loops : (lpc[l] = "detected" /\ lpc'[l] # "detected" /\ ppc' # ppc)
       => /\ verification_position'.ok = "ok"
          /\ verification_position'.active = color_indicator]_vars

C22_RetriedLocally ==
  (call.fn = "process_move" /\ call.pc = "done") =>
    /\ call.result = "sensor_fail" => call.samples = MAX_FEN_EXTRACTION_RETRIES
    /\ call.result = "oracle_fail" => call.oracle_calls > 1

\* C23: did_my_piece_move returns true exactly when the origin cell held one
\* of our pieces before and is empty after, the destination cell was empty
\* before and holds that same piece after, and every other cell is unchanged;
\* in particular it returns false when the two placements are equal.
C23_MovedIff ==
  (call.fn = "did_my_piece_move" /\ call.pc = "returned") =>
    LET before == fen_to_list(call.before_fen)
        after  == fen_to_list(call.after_fen)
        origin == algebraic_to_index(SubSeq(call.move, 1, 2))
        dest   == algebraic_to_index(SubSeq(call.move, 3, 4))
    IN  /\ call.ret <=>
             /\ At(before, origin) \in my_pieces(color_indicator)
             /\ At(after, origin) = " "
             /\ At(before, dest) = " "
             /\ At(after, dest) = At(before, origin)
             /\ \A i \in 0..63 :
                  i \notin {origin, dest} => At(before, i) = At(after, i)
        /\ before = after => ~call.ret

C25_PossibleIff ==
  (call.fn = "is_castling_possible" /\ call.pc = "returned") =>
    LET home == expand_row(IF call.color = "w" THEN call.fen[1][8]
                           ELSE call.fen[1][1])
        king == IF call.color = "w" THEN "K" ELSE "k"
        rook == IF call.color = "w" THEN "R" ELSE "r"
        corner == IF call.side = "kingside" THEN 8 ELSE 1
    IN  call.ret <=> (Len(home) = 8 /\ home[5] = king /\ home[corner] = rook)

\* C25 witness: a rook of the colour stands on the requested corner, its king
\* is not on the e-file, and the answer is no.
C25_Witness ==
  /\ call.fn = "is_castling_possible" /\ call.pc = "returned"
  /\ call.color = "w" /\ call.side = "queenside"
  /\ call.fen[1][8] = << "R", "4", "K", "1", "R" >>
  /\ ~call.ret

\* C26: for a placement whose rank 1 is the 8 cells R,N,B,Q,K,empty,empty,R,
\* is_castling_possible for white returns true for kingside and false for
\* queenside.
C26_Scenario ==
  ( /\ call.fn = "is_castling_possible" /\ call.pc = "returned"
    /\ call.color = "w"
    /\ expand_row(call.fen[1][8])
         = << "R", "N", "B", "Q", "K", " ", " ", "R" >> ) =>
    /\ call.side = "kingside" => call.ret
    /\ call.side = "queenside" => ~call.ret

\* C26 as the code has it: with rank 1 = R,N,B,Q,K,empty,empty,R a rook stands
\* on a1 as well as on h1 and the answer for white is true for both sides;
\* with the a1 cell empty (rank 1 = empty,N,B,Q,K,empty,empty,R) it is true
\* for kingside and false for queenside.
C26_ScenarioBothRooks ==
  (call.fn = "is_castling_possible" /\ call.pc = "returned"
     /\ call.color = "w") =>
    /\ expand_row(call.fen[1][8])
         = << "R", "N", "B", "Q", "K", " ", " ", "R" >> => call.ret
    /\ expand_row(call.fen[1][8])
         = << " ", "N", "B", "Q", "K", " ", " ", "R" >> =>
           (call.ret <=> call.side = "kingside")

\* C26 witness: the scenario's rank 1, white, queenside, answered yes.
C26_Witness ==
  /\ call.fn = "is_castling_possible" /\ call.pc = "returned"
  /\ call.color = "w" /\ call.side = "queenside"
  /\ expand_row(call.fen[1][8]) = << "R", "N", "B", "Q", "K", " ", " ", "R" >>
  /\ call.ret

\* C27: the castling field written by update_fen_castling_rights holds a
\* letter of our colour exactly when that castling is physically possible and
\* the matching-side flag is set, a letter of the opponent exactly when it is
\* physically possible, the letters in the order K,Q,k,q without repeats, and
\* is "-" when no letter qualifies.
C27_RightsField ==
  (call.fn = "update_fen_castling_rights" /\ call.pc = "returned") =>
    LET Flag(letter)  == IF letter \in {"K", "k"} THEN call.kingside_var
                         ELSE call.queenside_var
        Owner(letter) == IF letter \in {"K", "Q"} THEN "w" ELSE "b"
        Side(letter)  == IF letter \in {"K", "k"} THEN "kingside"
                         ELSE "queenside"
        Qualifies(letter) ==
          /\ is_castling_possible(call.fen, Owner(letter), Side(letter))
          /\ Owner(letter) = color_indicator => Flag(letter)
        letters == SelectSeq(<< "K", "Q", "k", "q" >>, Qualifies)
    IN  call.ret[3] = IF letters = << >> THEN << "-" >> ELSE letters

\* C27 witness: our kingside castling is possible on the board but its flag
\* is not set, the opponent's is possible: the field has k and not K.
C27_Witness ==
  /\ call.fn = "update_fen_castling_rights" /\ call.pc = "returned"
  /\ color_indicator = "w"
  /\ is_castling_possible(call.fen, "w", "kingside")
  /\ ~call.kingside_var
  /\ is_castling_possible(call.fen, "b", "kingside")
  /\ \E i \in 1..Len(call.ret[3]) : call.ret[3][i] = "k"
  /\ \A i \in 1..Len(call.ret[3]) : call.ret[3][i] # "K"

\* C28: the king moves e1g1, e1c1 of white and e8g8, e8c8 of black are
\* classified as castling, kingside to the g-file and queenside to the
\* c-file, and the rook leg that goes with them is h1f1, a1d1, h8f8, a8d8.
C28_CastlingLegs ==
  (call.fn = "_execute_move" /\ call.pc = "returned") =>
    /\ (color_indicator = "w" /\ call.move = << "e", "1", "g", "1" >>) =>
         (call.side = "kingside" /\ call.rook = << "h", "1", "f", "1" >>)
    /\ (color_indicator = "w" /\ call.move = << "e", "1", "c", "1" >>) =>
         (call.side = "queenside" /\ call.rook = << "a", "1", "d", "1" >>)
    /\ (color_indicator = "b" /\ call.move = << "e", "8", "g", "8" >>) =>
         (call.side = "kingside" /\ call.rook = << "h", "8", "f", "8" >>)
    /\ (color_indicator = "b" /\ call.move = << "e", "8", "c", "8" >>) =>
         (call.side = "queenside" /\ call.rook = << "a", "8", "d", "8" >>)

\* C28 witness: black's queenside castling classified, with its rook leg.
C28_Witness ==
  /\ call.fn = "_execute_move" /\ call.pc = "returned"
  /\ color_indicator = "b"
  /\ call.move = << "e", "8", "c", "8" >>
  /\ call.side = "queenside"
  /\ call.rook = << "a", "8", "d", "8" >>

\* C29: a move is classified as a promotion exactly when it has 5 characters
\* and its last character is one of q, r, b, n in either case, and the
\* extracted promotion letter is that character in lower case; a 4-character
\* move is never a promotion.
C29_PromotionIff ==
  (call.fn = "execute_normal_move" /\ call.pc = "returned") =>
    LET last == call.move[Len(call.move)]
    IN  /\ call.promotion <=>
             /\ Len(call.move) = 5
             /\ last \in {"q", "r", "b", "n", "Q", "R", "B", "N"}
        /\ call.promotion =>
             /\ call.piece \in {"q", "r", "b", "n"}
             /\ last \in {"q", "Q"} => call.piece = "q"
             /\ last \in {"r", "R"} => call.piece = "r"
             /\ last \in {"b", "B"} => call.piece = "b"
             /\ last \in {"n", "N"} => call.piece = "n"
        /\ Len(call.move) = 4 => ~call.promotion

\* C29 witness: a promotion written with a capital letter, extracted in
\* lower case.
C29_Witness ==
  /\ call.fn = "execute_normal_move" /\ call.pc = "returned"
  /\ call.move = << "e", "7", "e", "8", "Q" >>
  /\ call.promotion
  /\ call.piece = "q"

\* C30: wait_for_promotion_dialog reports the dialog as present only when one
\* sample holds at least 4 promotion-piece candidates of our colour lying on
\* our promotion rank, candidates elsewhere not counting; otherwise it goes
\* on sampling until the timeout.
C30_DialogOnPromotionRank ==
  (call.fn = "wait_for_promotion_dialog" /\ call.pc = "returned") =>
    LET OnRank(box) ==
          /\ box.class_id \in (IF color_indicator = "w"
                                 THEN PROMOTION_PIECE_IDS
                                 ELSE PROMOTION_PIECE_IDS_BLACK)
          /\ (box.y + box.h \div 2) \div 10
               = (IF color_indicator = "w" THEN 0 ELSE 7)
    IN  /\ call.found => Len(SelectSeq(call.boxes, OnRank)) >= 4
        /\ ~call.found => call.checks = max_checks

\* C31: when a move classified as a promotion has had its pawn leg executed,
\* the promotion resolver has been invoked by the time verification begins,
\* whatever the sample taken in between gave.
C31_ResolverBeforeVerification ==
  ( /\ call.fn = "_attempt_single_move"
    /\ call.pc = "verify"
    /\ call.moved
    /\ is_pawn_promotion_move(call.move) ) => call.resolver

\* C32: every dispatched pipeline eventually terminates, and a set in-flight
\* flag is eventually cleared, whatever the sensor, the oracle and the
\* actuator do, an oracle that never writes its best-move line included.
C32_PipelineTerminates ==
  /\ \A t \in Threads : (ppc[t] # "done") ~> (ppc[t] = "done")
  /\ processing_event ~> ~processing_event

\* C33: a detected opponent move is never lost: when a tick that detected the
\* opponent's move ends without handing a pipeline over and autoplay stays
\* enabled, a later tick that samples the same board, still ours to move,
\* detects the move again and so dispatches a pipeline.
C33_DetectedMoveNotLost ==
  [][ \A l \in Loops :
        ( /\ lpc[l] = "detected"
          /\ lpc'[l] = "loop"
          /\ ppc' = ppc
          /\ auto_mode_var' ) =>
          observe(color_indicator,
                  Sample(last_fen_by_color'[opp_color(color_indicator)],
                         color_indicator),
                  last_fen_by_color').move_detected ]_vars

\* C34: once autoplay has been disabled the poller hands over no further
\* pipeline: a tick that detected the opponent's move before the disable and
\* is still in its settle or pre-move delay ends without starting a thread.
C34_NoHandOverAfterDisable ==
  [][ \A l \in Loops :
        (~auto_mode_var /\ lpc[l] = "detected" /\ lpc'[l] = "loop") =>
          ppc' = ppc ]_vars

\* C34 as the code has it: with autoplay disabled the poller starts no new
\* tick, the head of the loop ends it; a tick already in progress when
\* autoplay is disabled still hands its pipeline over.
C34_NoNewTickAfterDisable ==
  [][ \A l \in Loops :
        (~auto_mode_var /\ lpc[l] = "loop") => lpc'[l] \in {"loop", "idle"}
    ]_vars

\* C34 witness: a pipeline has just been handed over with autoplay off.
C34_Witness ==
  /\ ~auto_mode_var
  /\ verification_position # NoSample
  /\ \E t \in Threads : ppc[t] = "start"
  /\ \E l \in Loops : lpc[l] = "loop"

\* C35: the consecutive-failure counter always lies between 0 and the
\* threshold, it is 0 when a started loop has passed its start-up, and the
\* step that brings it to the threshold turns autoplay off and ends the loop
\* that counted.
C35_CounterWithinThreshold ==
  /\ _consecutive_failures \in 0 .. _max_failures
  /\ [][ /\ _consecutive_failures' \in 0 .. _max_failures
         /\ \A l \in Loops \cup RacingLoops :
              (lpc[l] = "seed" /\ lpc'[l] = "loop") => _consecutive_failures' = 0
         /\ (/\ _consecutive_failures < _max_failures
             /\ _consecutive_failures' >= _max_failures)
              => /\ ~auto_mode_var'
                 /\ \E l \in Loops \cup RacingLoops :
                      lpc[l] # "idle" /\ lpc'[l] = "idle"
       ]_vars

\* C36: when the engine cannot be started or gives no move, get_best_move
\* returns (no move, no position, false) without raising, autoplay is off
\* afterwards and the pipeline's message is that no valid move was found.
C36_OracleFailureReturned ==
  ( /\ call.fn = "get_best_move" /\ call.pc = "done"
    /\ (call.engine = "missing" \/ call.answer = << >>) ) =>
      /\ ~call.raised
      /\ call.returned
      /\ call.ret = << << >>, 0, FALSE >>
      /\ ~call.auto
      /\ call.status = "No valid move found!"

\* C37: a move classified as castling takes the castling path only when the
\* user's flag for that same side is set; with the flag of its side off it is
\* executed as a normal move, and the pipeline changes neither flag.
C37_OptInOfSameSide ==
  ( /\ call.fn = "_execute_move" /\ call.pc = "done"
    /\ call.side # "none" ) =>
      LET opted == IF call.side = "kingside" THEN call.kingside_var
                   ELSE call.queenside_var
      IN  /\ call.path \in {"castling", "blocked"} => opted
          /\ ~opted => call.path = "normal"
          /\ call.kingside_check = call.kingside_var
          /\ call.queenside_check = call.queenside_var

\* C38: a move that is on the board exactly as prescribed is verified whether
\* or not it captures: when the origin cell held one of our pieces and is
\* empty after, the destination cell held no piece of ours before (empty or
\* an opposing piece) and holds the moved piece after, and no other cell
\* changed, did_my_piece_move returns true.
C38_CaptureVerified ==
  (call.fn = "did_my_piece_move" /\ call.pc = "returned") =>
    LET before == fen_to_list(call.before_fen)
        after  == fen_to_list(call.after_fen)
        origin == algebraic_to_index(SubSeq(call.move, 1, 2))
        dest   == algebraic_to_index(SubSeq(call.move, 3, 4))
    IN  ( /\ At(before, origin) \in my_pieces(color_indicator)
          /\ At(after, origin) = " "
          /\ At(before, dest) \notin my_pieces(color_indicator)
          /\ At(after, dest) = At(before, origin)
          /\ \A i \in 0..63 :
               i \notin {origin, dest} => At(before, i) = At(after, i) )
        => call.ret

====
